---- MODULE Spec2Model ----
(***************************************************************************)
(* Model of the pnpm curation audit (checks/combined_audit/main.go):       *)
(* lock-file parsing, snapshot persistence, work-list enumeration, the     *)
(* registry prober and the concurrent audit coordinator.                   *)
(*                                                                         *)
(* Strings are sequences of one-character strings, so that the key         *)
(* splitting, the sorting and the URL formatting are computed character    *)
(* by character as the Go code computes them.                              *)
(***************************************************************************)
EXTENDS Integers, Sequences, FiniteSets, Bags, TLC

VARIABLES
    lockFile,      \* the lock file: [status, packages], packages: key -> packageInfo
    args,          \* os.Args[1:] : [n, workers]
    pc,            \* position of main / of the driver of the pure runs
    exitCode,      \* process exit status (-1 while running)
    tree,          \* DependencyTree.Packages returned by parsePnpmLock
    tree2,         \* the same for a second parse of the same document
    snapshot,      \* content of pnpm_dependency_tree.json ("none" if unwritten)
    deps,          \* work list returned by fetchDependenciesFromTree
    deps2,         \* the same for a second call on the same tree
    numWorkers,    \* main's numWorkers
    spawned,       \* workers started so far (loop variable i of the pool loop)
    wg,            \* sync.WaitGroup counter
    jobs,          \* buffered channel jobs
    jobsClosed,
    results,       \* buffered channel results
    resultsClosed,
    sent,          \* submitter goroutine: items sent so far
    subPc,         \* submitter goroutine position
    supPc,         \* supervisor goroutine position
    wk,            \* worker goroutines: the bag of their [pc, dep, result] (worker never reads its id)
    resultMap,     \* collection loop: position -> AuditResult
    completed,     \* collection loop: progress counter
    progress,      \* progress values printed so far
    report,        \* report lines printed so far
    printIdx,      \* loop variable i of the report loop
    calls,         \* checkNpmRegistry calls per work-list position
    gets,          \* GET requests issued (client.Do) per work-list position
    produced,      \* the result checkNpmRegistry returned per work-list position
    pIn,           \* arguments of a single checkNpmRegistry call
    pResp,         \* what the registry answered to it
    pOut           \* its return value and the requests it issued

vars == <<lockFile, args, pc, exitCode, tree, tree2, snapshot, deps, deps2,
          numWorkers, spawned, wg, jobs, jobsClosed, results, resultsClosed,
          sent, subPc, supPc, wk, resultMap, completed, progress, report,
          printIdx, calls, gets, produced, pIn, pResp, pOut>>

(***************************************************************************)
(* Bounds of the model.                                                    *)
(***************************************************************************)
MaxKeyLen == 3     \* generated lock keys have at most this many characters
MaxKeys == 2       \* entries of a lock document in the parser runs
MaxDeps == 2       \* entries of a lock document in the audit runs

(***************************************************************************)
(* Strings.                                                                *)
(***************************************************************************)
\* The characters used, in ascending byte order (sort.Strings compares bytes).
CharOrder ==
    <<"%", "(", ")", "-", ".", "/", "0", "1", "2", "3", "5", "@",
      "a", "b", "f", "g", "h", "p", "q", "s", "t", "x", "z">>

ByteRank(c) == CHOOSE i \in 1..Len(CharOrder) : CharOrder[i] = c

Digits == {"0", "1", "2", "3", "5"}

DigitVal(c) ==
    CASE c = "0" -> 0 [] c = "1" -> 1 [] c = "2" -> 2 [] c = "3" -> 3 [] c = "5" -> 5

\* strings.HasPrefix(s, "@")
HasPrefixAt(s) == Len(s) >= 1 /\ s[1] = "@"

\* strings.Index / strings.LastIndex for a one-character separator: 0-based, -1 if absent
Index(s, c) ==
    IF \E i \in 1..Len(s) : s[i] = c
    THEN (CHOOSE i \in 1..Len(s) : s[i] = c /\ \A j \in 1..(i-1) : s[j] # c) - 1
    ELSE -1

LastIndex(s, c) ==
    IF \E i \in 1..Len(s) : s[i] = c
    THEN (CHOOSE i \in 1..Len(s) : s[i] = c /\ \A j \in (i+1)..Len(s) : s[j] # c) - 1
    ELSE -1

\* Go slice expressions s[:i] and s[i:] with 0-based i
Prefix(s, i) == SubSeq(s, 1, i)
Suffix(s, i) == SubSeq(s, i + 1, Len(s))

\* strings.SplitN(s, "@", 2)
SplitN2(s) ==
    IF Index(s, "@") < 0
    THEN <<s>>
    ELSE <<Prefix(s, Index(s, "@")), Suffix(s, Index(s, "@") + 1)>>

\* strings.Split(s, "/")
RECURSIVE SplitSlash(_)
SplitSlash(s) ==
    IF Index(s, "/") < 0
    THEN <<s>>
    ELSE <<Prefix(s, Index(s, "/"))>> \o SplitSlash(Suffix(s, Index(s, "/") + 1))

\* byte-wise s < t, as sort.Strings orders
RECURSIVE StrLess(_, _)
StrLess(s, t) ==
    IF Len(t) = 0 THEN FALSE
    ELSE IF Len(s) = 0 THEN TRUE
    ELSE IF s[1] # t[1] THEN ByteRank(s[1]) < ByteRank(t[1])
    ELSE StrLess(Tail(s), Tail(t))

\* all strings over the characters cs of length at most n
RECURSIVE StringsUpTo(_, _)
StringsUpTo(cs, n) ==
    IF n = 0 THEN {<<>>}
    ELSE LET shorter == StringsUpTo(cs, n - 1)
         IN  shorter \cup {Append(s, c) : s \in shorter, c \in cs}

\* all orders in which the elements of a finite set can be visited
RECURSIVE Orders(_)
Orders(S) ==
    IF S = {} THEN {<<>>}
    ELSE UNION {{<<x>> \o o : o \in Orders(S \ {x})} : x \in S}

Range(f) == {f[x] : x \in DOMAIN f}

(***************************************************************************)
(* Lockfile parser.                                                        *)
(***************************************************************************)
EmptyMap == [x \in {} |-> x]

\* PackageInfo{Version, Type, Resolution, Engines}; "nil" is the nil map
PackageInfo(version, type, resolution, engines) ==
    [Version |-> version, Type |-> type, Resolution |-> resolution, Engines |-> engines]

\* one match of \(([^@]+)@([^)]+)\) starting at the "(" at 1-based position i:
\* the name runs to the first "@" after i, the version to the first ")" after that
MatchAt(s, i) ==
    LET j == IF \E x \in (i+1)..Len(s) : s[x] = "@"
             THEN CHOOSE x \in (i+1)..Len(s) : s[x] = "@" /\ \A y \in (i+1)..(x-1) : s[y] # "@"
             ELSE 0
        k == IF j > 0 /\ \E x \in (j+1)..Len(s) : s[x] = ")"
             THEN CHOOSE x \in (j+1)..Len(s) : s[x] = ")" /\ \A y \in (j+1)..(x-1) : s[y] # ")"
             ELSE 0
    IN  IF s[i] = "(" /\ j > i + 1 /\ k > j + 1
        THEN [ok |-> TRUE, name |-> SubSeq(s, i + 1, j - 1),
              version |-> SubSeq(s, j + 1, k - 1), end |-> k]
        ELSE [ok |-> FALSE, name |-> <<>>, version |-> <<>>, end |-> i]

\* pattern.FindAllStringSubmatch(versionString, -1): leftmost, non-overlapping
RECURSIVE FindAllStringSubmatch(_, _)
FindAllStringSubmatch(s, from) ==
    IF from > Len(s) THEN <<>>
    ELSE LET m == MatchAt(s, from)
         IN  IF m.ok
             THEN <<m>> \o FindAllStringSubmatch(s, m.end + 1)
             ELSE FindAllStringSubmatch(s, from + 1)

RECURSIVE PutIndirect(_, _)
PutIndirect(matches, indirectDeps) ==
    IF matches = <<>> THEN indirectDeps
    ELSE LET m == Head(matches)
         IN  PutIndirect(Tail(matches),
                 [n \in DOMAIN indirectDeps \cup {m.name} |->
                     IF n = m.name
                     THEN PackageInfo(m.version, "indirect", "nil", "nil")
                     ELSE indirectDeps[n]])

extractIndirectDependencies(versionString) ==
    PutIndirect(FindAllStringSubmatch(versionString, 1), EmptyMap)

\* parsePackageKey splitting every key at its first "@"
parsePackageKeyFirstAt(packageKey) ==
    LET parts == SplitN2(packageKey)
    IN  IF Len(parts) = 2 THEN <<parts[1], parts[2]>> ELSE <<<<>>, <<>>>>

\* returns <<packageName, version>>; <<"", "">> when the key does not split
parsePackageKey(packageKey) ==
    IF HasPrefixAt(packageKey)
    THEN LET lastAtIndex == LastIndex(packageKey, "@")
         IN  IF lastAtIndex > 0
             THEN <<Prefix(packageKey, lastAtIndex), Suffix(packageKey, lastAtIndex + 1)>>
             ELSE <<<<>>, <<>>>>
    ELSE LET parts == SplitN2(packageKey)
         IN  IF Len(parts) = 2
             THEN <<parts[1], parts[2]>>
             ELSE <<<<>>, <<>>>>

\* the record built for one entry of the packages section (lines 124-139)
EntryInfo(version, packageInfo) ==
    PackageInfo(version, "package",
        IF packageInfo.resolution = "map" THEN "map" ELSE "nil",
        IF packageInfo.engines = "map" THEN "map" ELSE "nil")

\* the loop over lockData.Packages, visiting the keys in the given order
RECURSIVE ProcessPackages(_, _, _)
ProcessPackages(packages, order, allPackages) ==
    IF order = <<>> THEN allPackages
    ELSE LET packageKey == Head(order)
             pk == parsePackageKey(packageKey)
             packageName == pk[1]
             version == pk[2]
         IN  ProcessPackages(packages, Tail(order),
                 IF packageName # <<>> /\ version # <<>>
                 THEN [n \in DOMAIN allPackages \cup {packageName} |->
                          IF n = packageName
                          THEN EntryInfo(version, packages[packageKey])
                          ELSE allPackages[n]]
                 ELSE allPackages)

\* parsePnpmLock: the error, or the tree built by ranging over the map in some order
parsePnpmLock(file, order) ==
    IF file.status = "missing" THEN [err |-> "not found", tree |-> EmptyMap]
    ELSE IF file.status = "unreadable" THEN [err |-> "error reading", tree |-> EmptyMap]
    ELSE IF file.status = "undecodable" THEN [err |-> "error parsing YAML", tree |-> EmptyMap]
    ELSE [err |-> "nil", tree |-> ProcessPackages(file.packages, order, EmptyMap)]

(***************************************************************************)
(* Dependency enumerator.                                                  *)
(***************************************************************************)
RECURSIVE Insert(_, _)
Insert(sorted, s) ==
    IF sorted = <<>> THEN <<s>>
    ELSE IF StrLess(s, Head(sorted)) THEN <<s>> \o sorted
    ELSE <<Head(sorted)>> \o Insert(Tail(sorted), s)

\* sort.Strings
RECURSIVE SortStrings(_)
SortStrings(names) ==
    IF names = <<>> THEN <<>>
    ELSE Insert(SortStrings(Tail(names)), Head(names))

Dependency(name, version, type) == [Name |-> name, Version |-> version, Type |-> type]

\* fetchDependenciesFromTree without the sort.Strings call
fetchDependenciesUnsorted(packages, order) ==
    [i \in 1..Len(order) |->
        Dependency(order[i], packages[order[i]].Version, packages[order[i]].Type)]

\* fetchDependenciesFromTree, ranging over dependencies.Packages in the given order
fetchDependenciesFromTree(packages, order) ==
    LET packageNames == SortStrings(order)
    IN  [i \in 1..Len(packageNames) |->
            Dependency(packageNames[i], packages[packageNames[i]].Version,
                       packages[packageNames[i]].Type)]

(***************************************************************************)
(* Lock documents the runs draw from.                                      *)
(***************************************************************************)
GenChars == {"@", "a"}

\* short forms of the keys pnpm writes: scoped, unscoped, two versions of one
\* name, and version parts carrying a parenthesized peer suffix
ExampleKeys ==
    { <<"@", "s", "/", "p", "@", "1">>,
      <<"a", "@", "1">>,
      <<"a", "@", "2">>,
      <<"f", "@", "3">>,
      <<"a", "@", "1", "(", "f", "@", "2", ")">>,
      <<"@", "s", "/", "p", "@", "1", "(", "q", "@", "2", ")">> }

KeyUniverse == StringsUpTo(GenChars, MaxKeyLen) \cup ExampleKeys

RECURSIVE SubsetsUpTo(_, _)
SubsetsUpTo(S, n) ==
    IF n = 0 THEN {{}}
    ELSE LET smaller == SubsetsUpTo(S, n - 1)
         IN  smaller \cup {K \cup {x} : K \in smaller, x \in S}

NoInfo == [resolution |-> "absent", engines |-> "absent"]

\* an entry's value: resolution/engines absent, a mapping, or something else
InfoShapes ==
    { NoInfo,
      [resolution |-> "map", engines |-> "map"],
      [resolution |-> "scalar", engines |-> "scalar"] }

\* the keys whose entries are drawn with every shape of value
MetaKeys == { <<"a", "@", "1">> }

PackagesOver(keys, n) ==
    UNION { {p \in [K -> InfoShapes] : \A k \in K : k \in MetaKeys \/ p[k] = NoInfo}
            : K \in SubsetsUpTo(keys, n) }

LockFiles(keys, n) ==
    {[status |-> "ok", packages |-> p] : p \in PackagesOver(keys, n)}
      \cup {[status |-> s, packages |-> EmptyMap] : s \in {"missing", "unreadable", "undecodable"}}

(***************************************************************************)
(* Registry prober.                                                        *)
(***************************************************************************)
NilError == "nil"

AuditResult(index, name, version, type, status, statusCode, error) ==
    [Index |-> index, Name |-> name, Version |-> version, Type |-> type,
     Status |-> status, StatusCode |-> statusCode, Error |-> error]

HexDigits == {"0", "1", "2", "3", "5", "a", "b", "f"}

\* http.NewRequest fails when the URL does not parse; of net/url's rules the model
\* keeps the one a lock key or base URL of these characters can break: a "%" that
\* is not followed by two hexadecimal digits
NewRequestFails(url) ==
    \E i \in 1..Len(url) :
        /\ url[i] = "%"
        /\ ~(i + 2 <= Len(url) /\ url[i+1] \in HexDigits /\ url[i+2] \in HexDigits)

\* fmt.Sprintf("%s/%s/-/%s-%s.tgz", base, name, nameOnly, version)
PackageURL(base, name, nameOnly, version) ==
    base \o <<"/">> \o name \o <<"/", "-", "/">> \o nameOnly \o <<"-">> \o version
         \o <<".", "t", "g", "z">>

\* StatusOf with the labels of 403 and 404 exchanged
StatusOfSwapped(code) ==
    CASE code = 200 -> "Available in NPM Registry"
      [] code = 404 -> "Blocked (403 Forbidden)"
      [] code = 403 -> "Not Found (404)"
      [] OTHER -> "Unexpected Response: " \o ToString(code)

\* the switch on resp.StatusCode
StatusOf(code) ==
    CASE code = 200 -> "Available in NPM Registry"
      [] code = 403 -> "Blocked (403 Forbidden)"
      [] code = 404 -> "Not Found (404)"
      [] OTHER -> "Unexpected Response: " \o ToString(code)

\* the part of checkNpmRegistry after the URL is built (lines 212-266); resp is
\* what client.Do returns if it is called: [err, code]
DoRequest(packageName, packageVersion, packageType, packageURL, accessToken, resp) ==
    IF NewRequestFails(packageURL)
    THEN [result |-> AuditResult(0, packageName, packageVersion, packageType,
                                 "Request Failed", 0, "invalid URL"),
          requests |-> <<>>]
    ELSE LET req == [method |-> "GET", url |-> packageURL,
                     authorization |-> IF accessToken # <<>>
                                       THEN <<"Bearer ", accessToken>> ELSE <<>>]
         IN  IF resp.err
             THEN [result |-> AuditResult(0, packageName, packageVersion, packageType,
                                          "Request Failed", 0, "transport error"),
                   requests |-> <<req>>]
             ELSE [result |-> AuditResult(0, packageName, packageVersion, packageType,
                                          StatusOf(resp.code), resp.code, NilError),
                   requests |-> <<req>>]

\* checkNpmRegistry without the check of the scoped name's parts
checkNpmRegistryNoScopeCheck(packageName, packageVersion, packageType, npmRegistryBaseURL, accessToken, resp) ==
    LET parts == SplitSlash(packageName)
    IN  DoRequest(packageName, packageVersion, packageType,
            PackageURL(npmRegistryBaseURL, packageName, parts[Len(parts)], packageVersion),
            accessToken, resp)

\* checkNpmRegistry: the AuditResult returned and the requests sent with client.Do
checkNpmRegistry(packageName, packageVersion, packageType, npmRegistryBaseURL, accessToken, resp) ==
    IF HasPrefixAt(packageName)
    THEN LET parts == SplitSlash(packageName)
         IN  IF Len(parts) >= 2
             THEN DoRequest(packageName, packageVersion, packageType,
                      PackageURL(npmRegistryBaseURL, packageName, parts[Len(parts)],
                                 packageVersion),
                      accessToken, resp)
             ELSE [result |-> AuditResult(0, packageName, packageVersion, packageType,
                                          "Invalid scoped package format", 0,
                                          "invalid scoped package format"),
                   requests |-> <<>>]
    ELSE DoRequest(packageName, packageVersion, packageType,
             PackageURL(npmRegistryBaseURL, packageName, packageName, packageVersion),
             accessToken, resp)

\* what the registry may answer to one GET: a status code, or no response at all
\* (connection failure, or the 30 s client timeout)
StatusCodes == {200, 403, 404, 500, 301}

Responses ==
    {[err |-> FALSE, code |-> c] : c \in StatusCodes} \cup {[err |-> TRUE, code |-> 0]}

AuditResponses ==
    {[err |-> FALSE, code |-> 200], [err |-> FALSE, code |-> 500], [err |-> TRUE, code |-> 0]}

GoodBase == <<"h">>
BadBase == <<"h", "%">>

(***************************************************************************)
(* Command line.                                                           *)
(***************************************************************************)
DefaultWorkers == 5

RECURSIVE DigitPrefix(_)
DigitPrefix(s) ==
    IF s # <<>> /\ Head(s) \in Digits THEN <<Head(s)>> \o DigitPrefix(Tail(s)) ELSE <<>>

RECURSIVE DecimalValue(_, _)
DecimalValue(ds, acc) ==
    IF ds = <<>> THEN acc ELSE DecimalValue(Tail(ds), 10 * acc + DigitVal(Head(ds)))

\* fmt.Sscanf(arg, "%d", &numWorkers): an optional sign, then the longest run of
\* digits; what follows the digits is left unread.  [n, err, value]
Sscanf(arg) ==
    LET signed == arg # <<>> /\ Head(arg) \in {"-", "+"}
        body == IF signed THEN Tail(arg) ELSE arg
        ds == DigitPrefix(body)
    IN  IF ds = <<>>
        THEN [n |-> 0, err |-> TRUE, value |-> 0]
        ELSE [n |-> 1, err |-> FALSE,
              value |-> IF signed /\ Head(arg) = "-"
                        THEN 0 - DecimalValue(ds, 0) ELSE DecimalValue(ds, 0)]

\* lines 389-400: numWorkers from os.Args
WorkersFromArgs(argv) ==
    IF Len(argv) > 3
    THEN LET sc == Sscanf(argv[4])
         IN  IF sc.err \/ sc.n # 1 THEN DefaultWorkers ELSE sc.value
    ELSE DefaultWorkers

LockPath == <<"p">>
Token == <<"t">>

\* os.Args[4] values tried
WorkerArgs ==
    { <<"0">>, <<"-", "3">>, <<"x">>, <<"2", "x">> }

\* os.Args[1:] of the runs
ArgLists ==
    { <<>>, <<LockPath>>, <<LockPath, GoodBase>>, <<LockPath, BadBase, Token, <<"1">>>> }
      \cup {<<LockPath, GoodBase, <<>>, w>> : w \in WorkerArgs}

\* keys of the lock documents audited: unscoped, scoped, a scoped name without
\* "/", and a key that does not split
AuditKeys ==
    { <<"a", "@", "1">>, <<"b", "@", "1">>, <<"@", "s", "/", "p", "@", "1">>,
      <<"@", "a", "@", "1">>, <<"a", "b">> }

(***************************************************************************)
(* State of a run.                                                         *)
(***************************************************************************)
NoSnapshot == [written |-> FALSE, packages |-> EmptyMap]
NoProbe == [name |-> <<>>, version |-> <<>>, type |-> "", base |-> <<>>, token |-> <<>>]
NoResponse == [err |-> FALSE, code |-> 0]
NoResult == AuditResult(0, <<>>, <<>>, "", "", 0, NilError)
NoOutcome == [result |-> NoResult, requests |-> <<>>]
NoDep == Dependency(<<>>, <<>>, "")

\* everything but the inputs, before the run starts
Idle ==
    /\ exitCode = -1
    /\ tree = EmptyMap
    /\ tree2 = EmptyMap
    /\ snapshot = NoSnapshot
    /\ deps = <<>>
    /\ deps2 = <<>>
    /\ numWorkers = DefaultWorkers
    /\ spawned = 0
    /\ wg = 0
    /\ jobs = <<>>
    /\ jobsClosed = FALSE
    /\ results = <<>>
    /\ resultsClosed = FALSE
    /\ sent = 0
    /\ subPc = "unstarted"
    /\ supPc = "unstarted"
    /\ wk = EmptyBag
    /\ resultMap = EmptyMap
    /\ completed = 0
    /\ progress = <<>>
    /\ report = <<>>
    /\ printIdx = 0
    /\ calls = <<>>
    /\ gets = <<>>
    /\ produced = <<>>
    /\ pResp = NoResponse
    /\ pOut = NoOutcome

auditVars == <<numWorkers, spawned, wg, jobs, jobsClosed, results, resultsClosed, sent,
               subPc, supPc, wk, resultMap, completed, progress, report, printIdx,
               calls, gets, produced>>
probeVars == <<pIn, pResp, pOut>>
inputVars == <<lockFile, args>>

(***************************************************************************)
(* The parser and the enumerator run on their own: parse the document      *)
(* twice, then enumerate the tree twice.                                   *)
(***************************************************************************)
InitParse ==
    /\ lockFile \in LockFiles(KeyUniverse, MaxKeys)
    /\ args = <<>>
    /\ pc = "parse"
    /\ pIn = NoProbe
    /\ Idle

ParseLock ==
    /\ pc = "parse"
    /\ \E order \in Orders(DOMAIN lockFile.packages) :
         LET r == parsePnpmLock(lockFile, order)
         IN  /\ tree' = r.tree
             /\ pc' = IF r.err = NilError THEN "parse again" ELSE "failed"
    /\ UNCHANGED <<inputVars, exitCode, tree2, snapshot, deps, deps2, auditVars, probeVars>>

ParseLockAgain ==
    /\ pc = "parse again"
    /\ \E order \in Orders(DOMAIN lockFile.packages) :
         tree2' = parsePnpmLock(lockFile, order).tree
    /\ pc' = "enumerate"
    /\ UNCHANGED <<inputVars, exitCode, tree, snapshot, deps, deps2, auditVars, probeVars>>

Enumerate ==
    /\ pc = "enumerate"
    /\ \E order \in Orders(DOMAIN tree) : deps' = fetchDependenciesFromTree(tree, order)
    /\ pc' = "enumerate again"
    /\ UNCHANGED <<inputVars, exitCode, tree, tree2, snapshot, deps2, auditVars, probeVars>>

EnumerateAgain ==
    /\ pc = "enumerate again"
    /\ \E order \in Orders(DOMAIN tree) : deps2' = fetchDependenciesFromTree(tree, order)
    /\ pc' = "enumerated"
    /\ UNCHANGED <<inputVars, exitCode, tree, tree2, snapshot, deps, auditVars, probeVars>>

NextParse == ParseLock \/ ParseLockAgain \/ Enumerate \/ EnumerateAgain

SpecParse == InitParse /\ [][NextParse]_vars

(***************************************************************************)
(* The prober runs on its own: one call of checkNpmRegistry.               *)
(***************************************************************************)
ProbeNames ==
    (StringsUpTo({"@", "/", "a"}, MaxKeyLen) \ {<<>>}) \cup {<<"a", "%">>, <<"@", "s", "/", "p">>}

InitProbe ==
    /\ pIn \in [name : ProbeNames, version : {<<"1">>}, type : {"package", "indirect"},
                base : {GoodBase, BadBase}, token : {<<>>, Token}]
    /\ lockFile = [status |-> "missing", packages |-> EmptyMap]
    /\ args = <<>>
    /\ pc = "probe"
    /\ Idle

Probe ==
    /\ pc = "probe"
    /\ \E resp \in Responses :
         /\ pResp' = resp
         /\ pOut' = checkNpmRegistry(pIn.name, pIn.version, pIn.type, pIn.base, pIn.token, resp)
    /\ pc' = "probed"
    /\ UNCHANGED <<inputVars, exitCode, tree, tree2, snapshot, deps, deps2, auditVars, pIn>>

NextProbe == Probe

SpecProbe == InitProbe /\ [][NextProbe]_vars

(***************************************************************************)
(* A whole run of main.                                                    *)
(***************************************************************************)
Init ==
    /\ lockFile \in LockFiles(AuditKeys, MaxDeps)
    /\ args \in ArgLists
    /\ pc = "start"
    /\ pIn = NoProbe
    /\ Idle

Running == exitCode = -1

\* position (1-based) of the work item a worker holds
PosOf(dep) == CHOOSE i \in 1..Len(deps) : deps[i].Name = dep.Name

\* CheckArgs with the test len(os.Args) < 2, which lets a run with one argument pass
CheckArgsOffByOne ==
    /\ pc = "start"
    /\ IF Len(args) < 1
       THEN /\ exitCode' = 1
            /\ pc' = "usage"
            /\ UNCHANGED numWorkers
       ELSE /\ numWorkers' = WorkersFromArgs(args)
            /\ pc' = "parse"
            /\ UNCHANGED exitCode
    /\ UNCHANGED <<inputVars, tree, tree2, snapshot, deps, deps2, spawned, wg, jobs,
                   jobsClosed, results, resultsClosed, sent, subPc, supPc, wk, resultMap,
                   completed, progress, report, printIdx, calls, gets, produced, probeVars>>

\* lines 379-404: usage check and the optional arguments
CheckArgs ==
    /\ pc = "start"
    /\ IF Len(args) < 2
       THEN /\ exitCode' = 1
            /\ pc' = "usage"
            /\ UNCHANGED numWorkers
       ELSE /\ numWorkers' = WorkersFromArgs(args)
            /\ pc' = "parse"
            /\ UNCHANGED exitCode
    /\ UNCHANGED <<inputVars, tree, tree2, snapshot, deps, deps2, spawned, wg, jobs,
                   jobsClosed, results, resultsClosed, sent, subPc, supPc, wk, resultMap,
                   completed, progress, report, printIdx, calls, gets, produced, probeVars>>

\* ParseStep with the error of parsePnpmLock logged but not fatal
ParseStepIgnoringError ==
    /\ pc = "parse"
    /\ \E order \in Orders(DOMAIN lockFile.packages) :
         tree' = parsePnpmLock(lockFile, order).tree
    /\ pc' = "save"
    /\ UNCHANGED <<inputVars, exitCode, tree2, snapshot, deps, deps2, auditVars, probeVars>>

\* lines 406-411: Step 1, log.Fatalf on error
ParseStep ==
    /\ pc = "parse"
    /\ \E order \in Orders(DOMAIN lockFile.packages) :
         LET r == parsePnpmLock(lockFile, order)
         IN  IF r.err # NilError
             THEN /\ exitCode' = 1
                  /\ pc' = "fatal parse"
                  /\ UNCHANGED tree
             ELSE /\ tree' = r.tree
                  /\ pc' = "save"
                  /\ UNCHANGED exitCode
    /\ UNCHANGED <<inputVars, tree2, snapshot, deps, deps2, auditVars, probeVars>>

\* saveDependencyTree: json.MarshalIndent and ioutil.WriteFile may each fail
saveDependencyTree(dependencies, outcome) ==
    IF outcome = "marshal error" THEN [err |-> "error marshaling JSON", file |-> NoSnapshot]
    ELSE IF outcome = "write error" THEN [err |-> "error writing JSON file", file |-> NoSnapshot]
    ELSE [err |-> NilError, file |-> [written |-> TRUE, packages |-> dependencies]]

\* lines 413-420: Step 2, log.Fatalf on error
SaveStep ==
    /\ pc = "save"
    /\ \E outcome \in {"ok", "marshal error", "write error"} :
         LET r == saveDependencyTree(tree, outcome)
         IN  IF r.err # NilError
             THEN /\ exitCode' = 1
                  /\ pc' = "fatal save"
                  /\ UNCHANGED snapshot
             ELSE /\ snapshot' = r.file
                  /\ pc' = "enumerate"
                  /\ UNCHANGED exitCode
    /\ UNCHANGED <<inputVars, tree, tree2, deps, deps2, auditVars, probeVars>>

\* lines 422-429 and 280-284: Step 3, then the channels are made
EnumerateStep ==
    /\ pc = "enumerate"
    /\ \E order \in Orders(DOMAIN tree) :
         /\ deps' = fetchDependenciesFromTree(tree, order)
         /\ calls' = [i \in 1..Len(deps') |-> 0]
         /\ gets' = [i \in 1..Len(deps') |-> 0]
         /\ produced' = [i \in 1..Len(deps') |-> NoResult]
    /\ pc' = "spawn"
    /\ UNCHANGED <<inputVars, exitCode, tree, tree2, snapshot, deps2, numWorkers, spawned,
                   wg, jobs, jobsClosed, results, resultsClosed, sent, subPc, supPc, wk,
                   resultMap, completed, progress, report, printIdx, probeVars>>

\* a worker goroutine at the head of its loop, and the pool after one worker in
\* state w has moved to state w2
WorkerStart == [pc |-> "recv", dep |-> NoDep, result |-> NoResult]

Moved(w, w2) == (wk (-) SetToBag({w})) (+) SetToBag({w2})

\* lines 287-290: one turn of the pool loop
SpawnWorker ==
    /\ pc = "spawn"
    /\ spawned < numWorkers
    /\ wg' = wg + 1
    /\ spawned' = spawned + 1
    /\ wk' = wk (+) SetToBag({WorkerStart})
    /\ UNCHANGED <<inputVars, pc, exitCode, tree, tree2, snapshot, deps, deps2, numWorkers,
                   jobs, jobsClosed, results, resultsClosed, sent, subPc, supPc, resultMap,
                   completed, progress, report, printIdx, calls, gets, produced, probeVars>>

\* lines 293-309: the submitter and the supervisor are started, the collection begins
StartCollect ==
    /\ pc = "spawn"
    /\ ~(spawned < numWorkers)
    /\ subPc' = "run"
    /\ supPc' = "wait"
    /\ pc' = "collect"
    /\ UNCHANGED <<inputVars, exitCode, tree, tree2, snapshot, deps, deps2, numWorkers,
                   spawned, wg, jobs, jobsClosed, results, resultsClosed, sent, wk,
                   resultMap, completed, progress, report, printIdx, calls, gets, produced, probeVars>>

\* channels made one slot smaller than the work list
CapacitySmaller == Len(deps) - 1

\* capacity of both channels: make(chan ..., len(deps))
Capacity == Len(deps)

\* lines 294-297: jobs <- depCopy (a send on a closed channel panics)
SubmitterSend ==
    /\ Running
    /\ subPc = "run"
    /\ sent < Len(deps)
    /\ Len(jobs) < Capacity \/ jobsClosed
    /\ IF jobsClosed
       THEN /\ exitCode' = 2
            /\ UNCHANGED <<jobs, sent>>
       ELSE /\ jobs' = Append(jobs, deps[sent + 1])
            /\ sent' = sent + 1
            /\ UNCHANGED exitCode
    /\ UNCHANGED <<inputVars, pc, tree, tree2, snapshot, deps, deps2, numWorkers, spawned,
                   wg, jobsClosed, results, resultsClosed, subPc, supPc, wk, resultMap,
                   completed, progress, report, printIdx, calls, gets, produced, probeVars>>

\* line 298: close(jobs)
SubmitterClose ==
    /\ Running
    /\ subPc = "run"
    /\ sent = Len(deps)
    /\ jobsClosed' = TRUE
    /\ subPc' = "done"
    /\ UNCHANGED <<inputVars, pc, exitCode, tree, tree2, snapshot, deps, deps2, numWorkers,
                   spawned, wg, jobs, results, resultsClosed, sent, supPc, wk, resultMap,
                   completed, progress, report, printIdx, calls, gets, produced, probeVars>>

\* WorkerRecv reading the head of the queue without removing it
WorkerRecvKeepsItem(w) ==
    /\ Running
    /\ w.pc = "recv"
    /\ jobs # <<>>
    /\ wk' = Moved(w, [w EXCEPT !.pc = "probe", !.dep = Head(jobs)])
    /\ UNCHANGED <<inputVars, pc, exitCode, tree, tree2, snapshot, deps, deps2, numWorkers,
                   spawned, wg, jobs, jobsClosed, results, resultsClosed, sent, subPc, supPc,
                   resultMap, completed, progress, report, printIdx, calls, gets, produced,
                   probeVars>>

\* line 272: a worker receives the next item
WorkerRecv(w) ==
    /\ Running
    /\ w.pc = "recv"
    /\ jobs # <<>>
    /\ wk' = Moved(w, [w EXCEPT !.pc = "probe", !.dep = Head(jobs)])
    /\ jobs' = Tail(jobs)
    /\ UNCHANGED <<inputVars, pc, exitCode, tree, tree2, snapshot, deps, deps2, numWorkers,
                   spawned, wg, jobsClosed, results, resultsClosed, sent, subPc, supPc,
                   resultMap, completed, progress, report, printIdx, calls, gets, produced, probeVars>>

\* line 273: the call of checkNpmRegistry returns
WorkerProbe(w) ==
    /\ Running
    /\ w.pc = "probe"
    /\ \E resp \in AuditResponses :
         LET dep == w.dep
             out == checkNpmRegistry(dep.Name, dep.Version, dep.Type, args[2],
                                     IF Len(args) > 2 THEN args[3] ELSE <<>>, resp)
         IN  /\ wk' = Moved(w, [w EXCEPT !.pc = "send", !.result = out.result])
             /\ calls' = [calls EXCEPT ![PosOf(dep)] = @ + 1]
             /\ gets' = [gets EXCEPT ![PosOf(dep)] = @ + Len(out.requests)]
             /\ produced' = [produced EXCEPT ![PosOf(dep)] = out.result]
    /\ UNCHANGED <<inputVars, pc, exitCode, tree, tree2, snapshot, deps, deps2, numWorkers,
                   spawned, wg, jobs, jobsClosed, results, resultsClosed, sent, subPc,
                   supPc, resultMap, completed, progress, report, printIdx, probeVars>>

\* WorkerSend with a worker that returns on a result carrying an error
WorkerSendDropsFailures(w) ==
    /\ Running
    /\ w.pc = "send"
    /\ Len(results) < Capacity \/ resultsClosed \/ w.result.Error # NilError
    /\ IF w.result.Error # NilError
       THEN /\ wk' = Moved(w, [WorkerStart EXCEPT !.pc = "done"])
            /\ wg' = wg - 1
            /\ UNCHANGED <<results, exitCode>>
       ELSE /\ results' = Append(results, w.result)
            /\ wk' = Moved(w, WorkerStart)
            /\ UNCHANGED <<exitCode, wg>>
    /\ UNCHANGED <<inputVars, pc, tree, tree2, snapshot, deps, deps2, numWorkers, spawned,
                   jobs, jobsClosed, resultsClosed, sent, subPc, supPc, resultMap,
                   completed, progress, report, printIdx, calls, gets, produced, probeVars>>

\* WorkerSend that also counts the outcome as completed
WorkerSendCountsProgress(w) ==
    /\ Running
    /\ w.pc = "send"
    /\ Len(results) < Capacity \/ resultsClosed
    /\ IF resultsClosed
       THEN /\ exitCode' = 2
            /\ UNCHANGED <<results, wk, completed>>
       ELSE /\ results' = Append(results, w.result)
            /\ wk' = Moved(w, WorkerStart)
            /\ completed' = completed + 1
            /\ UNCHANGED exitCode
    /\ UNCHANGED <<inputVars, pc, tree, tree2, snapshot, deps, deps2, numWorkers, spawned,
                   wg, jobs, jobsClosed, resultsClosed, sent, subPc, supPc, resultMap,
                   progress, report, printIdx, calls, gets, produced, probeVars>>

\* line 274: results <- result (a send on a closed channel panics)
WorkerSend(w) ==
    /\ Running
    /\ w.pc = "send"
    /\ Len(results) < Capacity \/ resultsClosed
    /\ IF resultsClosed
       THEN /\ exitCode' = 2
            /\ UNCHANGED <<results, wk>>
       ELSE /\ results' = Append(results, w.result)
            /\ wk' = Moved(w, WorkerStart)
            /\ UNCHANGED exitCode
    /\ UNCHANGED <<inputVars, pc, tree, tree2, snapshot, deps, deps2, numWorkers, spawned,
                   wg, jobs, jobsClosed, resultsClosed, sent, subPc, supPc, resultMap,
                   completed, progress, report, printIdx, calls, gets, produced, probeVars>>

\* WorkerExit without the deferred wg.Done()
WorkerExitWithoutDone(w) ==
    /\ Running
    /\ w.pc = "recv"
    /\ jobs = <<>>
    /\ jobsClosed
    /\ wk' = Moved(w, [w EXCEPT !.pc = "done"])
    /\ UNCHANGED <<inputVars, pc, exitCode, tree, tree2, snapshot, deps, deps2, numWorkers,
                   spawned, wg, jobs, jobsClosed, results, resultsClosed, sent, subPc, supPc,
                   resultMap, completed, progress, report, printIdx, calls, gets, produced,
                   probeVars>>

\* lines 270-272: jobs is closed and drained, the loop ends and wg.Done() runs
WorkerExit(w) ==
    /\ Running
    /\ w.pc = "recv"
    /\ jobs = <<>>
    /\ jobsClosed
    /\ wk' = Moved(w, [w EXCEPT !.pc = "done"])
    /\ wg' = wg - 1
    /\ UNCHANGED <<inputVars, pc, exitCode, tree, tree2, snapshot, deps, deps2, numWorkers,
                   spawned, jobs, jobsClosed, results, resultsClosed, sent, subPc, supPc,
                   resultMap, completed, progress, report, printIdx, calls, gets, produced, probeVars>>

\* SupervisorClose without the wg.Wait()
SupervisorCloseEarly ==
    /\ Running
    /\ supPc = "wait"
    /\ resultsClosed' = TRUE
    /\ supPc' = "done"
    /\ UNCHANGED <<inputVars, pc, exitCode, tree, tree2, snapshot, deps, deps2, numWorkers,
                   spawned, wg, jobs, jobsClosed, results, sent, subPc, wk, resultMap,
                   completed, progress, report, printIdx, calls, gets, produced, probeVars>>

\* lines 302-305: wg.Wait() returns, close(results)
SupervisorClose ==
    /\ Running
    /\ supPc = "wait"
    /\ wg = 0
    /\ resultsClosed' = TRUE
    /\ supPc' = "done"
    /\ UNCHANGED <<inputVars, pc, exitCode, tree, tree2, snapshot, deps, deps2, numWorkers,
                   spawned, wg, jobs, jobsClosed, results, sent, subPc, wk, resultMap,
                   completed, progress, report, printIdx, calls, gets, produced, probeVars>>

\* Matches comparing the version only
MatchesByVersion(result) ==
    {i \in 1..Len(deps) : deps[i].Version = result.Version}

\* lines 313-319: the first position whose item has the result's name and version
Matches(result) ==
    {i \in 1..Len(deps) : deps[i].Name = result.Name /\ deps[i].Version = result.Version}

FirstMatch(result) == CHOOSE i \in Matches(result) : \A j \in Matches(result) : i <= j

\* Record with the position never assigned: every result lands at position 0
RecordIndexZero(map, result) ==
    IF Matches(result) = {} THEN map
    ELSE [k \in DOMAIN map \cup {0} |-> IF k = 0 THEN [result EXCEPT !.Index = 0] ELSE map[k]]

\* the result map after one result is recorded (keyed by the 0-based position)
Record(map, result) ==
    IF Matches(result) = {} THEN map
    ELSE LET i == FirstMatch(result) - 1
         IN  [k \in DOMAIN map \cup {i} |->
                 IF k = i THEN [result EXCEPT !.Index = i] ELSE map[k]]

\* lines 311-324: one turn of the collection loop
Collect ==
    /\ pc = "collect"
    /\ results # <<>>
    /\ resultMap' = Record(resultMap, Head(results))
    /\ results' = Tail(results)
    /\ completed' = completed + 1
    /\ progress' = Append(progress, <<completed + 1, Len(deps)>>)
    /\ UNCHANGED <<inputVars, pc, exitCode, tree, tree2, snapshot, deps, deps2, numWorkers,
                   spawned, wg, jobs, jobsClosed, resultsClosed, sent, subPc, supPc, wk,
                   report, printIdx, calls, gets, produced, probeVars>>

\* CollectEnd leaving the loop as soon as results is empty, closed or not
CollectEndWhenEmpty ==
    /\ pc = "collect"
    /\ results = <<>>
    /\ pc' = "print"
    /\ UNCHANGED <<inputVars, exitCode, tree, tree2, snapshot, deps, deps2, auditVars,
                   probeVars>>

\* lines 311 and 326: results is closed and drained, the loop ends
CollectEnd ==
    /\ pc = "collect"
    /\ results = <<>>
    /\ resultsClosed
    /\ pc' = "print"
    /\ UNCHANGED <<inputVars, exitCode, tree, tree2, snapshot, deps, deps2, auditVars,
                   probeVars>>

\* the line printed for a recorded result (lines 331-335)
ReportLine(result) ==
    [pos |-> result.Index, Name |-> result.Name, Version |-> result.Version,
     Type |-> result.Type, Status |-> result.Status,
     Error |-> IF result.Error # NilError THEN result.Error ELSE ""]

\* lines 329-337: one turn of the report loop
PrintLine ==
    /\ pc = "print"
    /\ printIdx < Len(deps)
    /\ report' = IF printIdx \in DOMAIN resultMap
                 THEN Append(report, ReportLine(resultMap[printIdx]))
                 ELSE report
    /\ printIdx' = printIdx + 1
    /\ UNCHANGED <<inputVars, pc, exitCode, tree, tree2, snapshot, deps, deps2, numWorkers,
                   spawned, wg, jobs, jobsClosed, results, resultsClosed, sent, subPc,
                   supPc, wk, resultMap, completed, progress, calls, gets, produced, probeVars>>

\* lines 437-442: the summary is printed and main returns
Finish ==
    /\ pc = "print"
    /\ ~(printIdx < Len(deps))
    /\ pc' = "done"
    /\ exitCode' = 0
    /\ UNCHANGED <<inputVars, tree, tree2, snapshot, deps, deps2, auditVars, probeVars>>

Next ==
    \/ CheckArgs
    \/ ParseStep
    \/ SaveStep
    \/ EnumerateStep
    \/ SpawnWorker
    \/ StartCollect
    \/ SubmitterSend
    \/ SubmitterClose
    \/ \E w \in BagToSet(wk) : WorkerRecv(w)
    \/ \E w \in BagToSet(wk) : WorkerProbe(w)
    \/ \E w \in BagToSet(wk) : WorkerSend(w)
    \/ \E w \in BagToSet(wk) : WorkerExit(w)
    \/ SupervisorClose
    \/ Collect
    \/ CollectEnd
    \/ PrintLine
    \/ Finish

Spec == Init /\ [][Next]_vars

\* the steps of the main goroutine, of the submitter, of the supervisor and of
\* the worker pool
MainStep ==
    \/ CheckArgs
    \/ ParseStep
    \/ SaveStep
    \/ EnumerateStep
    \/ SpawnWorker
    \/ StartCollect
    \/ Collect
    \/ CollectEnd
    \/ PrintLine
    \/ Finish

SubmitterStep == SubmitterSend \/ SubmitterClose

WorkerStep ==
    \E w \in BagToSet(wk) : WorkerRecv(w) \/ WorkerProbe(w) \/ WorkerSend(w) \/ WorkerExit(w)

\* the Go scheduler runs every goroutine that is not blocked, and every call of
\* checkNpmRegistry returns (the client has a timeout, line 207)
SpecFair ==
    /\ Spec
    /\ WF_vars(MainStep)
    /\ WF_vars(SubmitterStep)
    /\ WF_vars(WorkerStep)
    /\ WF_vars(SupervisorClose)

(***************************************************************************)
(* Properties.                                                             *)
(***************************************************************************)
AllReported ==
    /\ completed = Len(deps)
    /\ Len(report) = Len(deps)
    /\ \A i \in 1..Len(report) : report[i].pos = i - 1

\* C1: with distinct package names and at least one worker, whatever the
\* interleaving, exactly N outcomes are collected and the report has exactly N
\* lines, line i for position i-1, in ascending order without gap or duplicate.
C1_OneLinePerItem ==
    (numWorkers >= 1 /\ pc \in {"print", "done"}) =>
        /\ completed = Len(deps)
        /\ DOMAIN resultMap = 0..(Len(deps) - 1)
        /\ pc = "done" => AllReported

C1_Witness ==
    /\ pc = "done"
    /\ numWorkers >= 2
    /\ Len(report) >= 2
    /\ report[1].Status # report[2].Status

\* an optionally signed run of digits and nothing else
ArgIsNumber(arg) ==
    LET body == IF arg # <<>> /\ Head(arg) \in {"-", "+"} THEN Tail(arg) ELSE arg
    IN  body # <<>> /\ \A i \in 1..Len(body) : body[i] \in Digits

WorkerArgRejected ==
    /\ Len(args) > 3
    /\ ~ArgIsNumber(args[4]) \/ Sscanf(args[4]).value <= 0

\* C2: a worker-count argument that is <= 0 or not a number makes the run behave
\* as with 5 workers: five workers are spawned, every item is reported, the run
\* does not fail.
C2_InvalidWorkerCountMeansFive ==
    WorkerArgRejected =>
        /\ pc \notin {"start", "usage"} => numWorkers = DefaultWorkers
        /\ pc = "done" => (spawned = DefaultWorkers /\ AllReported /\ exitCode = 0)

NoAuditWork ==
    /\ deps = <<>>
    /\ calls = <<>>
    /\ wk = EmptyBag
    /\ jobs = <<>>
    /\ results = <<>>
    /\ subPc = "unstarted"
    /\ report = <<>>

\* C3: nothing is enumerated or probed unless the lock file parsed and the
\* snapshot was written; a parse failure or a persistence failure ends the run
\* with a non-zero exit before any audit work, and after a parse failure no
\* snapshot is written.
C3_FatalBeforeAudit ==
    /\ ~NoAuditWork => (lockFile.status = "ok" /\ snapshot.written /\ snapshot.packages = tree)
    /\ pc \in {"enumerate", "spawn", "collect", "print", "done"} =>
           (lockFile.status = "ok" /\ snapshot.written)
    /\ lockFile.status # "ok" => (~snapshot.written /\ pc \in {"start", "usage", "parse", "fatal parse"})
    /\ pc \in {"fatal parse", "fatal save"} => (exitCode = 1 /\ ~snapshot.written /\ NoAuditWork)

C3_Witness ==
    /\ pc = "fatal save"
    /\ DOMAIN tree # {}
    /\ exitCode = 1

\* a per-item failure outcome: InvalidIdentity, RequestFailed or Unexpected
IsFailure(result) == result.StatusCode \notin {200, 403, 404}

\* C4: a per-item failure never aborts the run or stops a worker: when some item's
\* outcome is a failure, the run still ends normally with one outcome and one
\* report line per item, each line about its own item, and a failure cause is
\* shown only on the lines of items whose outcome is a failure.
C4_FailuresAreIsolated ==
    /\ pc \in {"spawn", "collect", "print", "done"} => exitCode \in {-1, 0}
    /\ (\E k \in DOMAIN resultMap : IsFailure(resultMap[k])) =>
           /\ exitCode \in {-1, 0}
           /\ pc \in {"collect", "print", "done"}
           /\ pc \in {"print", "done"} => DOMAIN resultMap = 0..(Len(deps) - 1)
           /\ pc = "done" =>
                 /\ AllReported
                 /\ \A i \in 1..Len(report) :
                       /\ report[i].Name = deps[i].Name
                       /\ report[i].Version = deps[i].Version
                       /\ report[i].Status = resultMap[i - 1].Status
                       /\ report[i].Error # "" => IsFailure(resultMap[i - 1])
                       /\ ~IsFailure(resultMap[i - 1]) => report[i].Error = ""

C4_Witness ==
    /\ pc = "done"
    /\ Len(report) >= 2
    /\ \E i, j \in 1..Len(report) :
         /\ report[i].Error # ""
         /\ report[j].Error = ""
         /\ report[j].Status = "Available in NPM Registry"

\* The key-splitting algorithm as the specification words it.
AtPositions(key) == {i \in 1..Len(key) : key[i] = "@"}

SplitPosition(key) ==
    IF key[1] = "@"
    THEN CHOOSE i \in AtPositions(key) : \A j \in AtPositions(key) : j <= i
    ELSE CHOOSE i \in AtPositions(key) : \A j \in AtPositions(key) : i <= j

SplitName(key) == SubSeq(key, 1, SplitPosition(key) - 1)
SplitVersion(key) == SubSeq(key, SplitPosition(key) + 1, Len(key))

NoSeparator(key) == AtPositions(key) = {}

\* a scoped key with nothing but the scope marker to split at, or with nothing
\* after the "@" it splits at
IllFormedScoped(key) ==
    /\ AtPositions(key) # {}
    /\ key[1] = "@"
    /\ AtPositions(key) = {1} \/ SplitVersion(key) = <<>>

\* malformed: no separator, or an ill-formed scoped key
Malformed(key) == NoSeparator(key) \/ IllFormedScoped(key)

ParsedOk == lockFile.status = "ok" /\ pc # "parse"

LockKeys == DOMAIN lockFile.packages

\* C5 as claimed: the names of the tree are exactly the names the key-splitting
\* algorithm produces from the keys that are not malformed (no separator, or
\* ill-formed scoped key).
C5_NamesAreSplitNames ==
    ParsedOk => DOMAIN tree = {SplitName(k) : k \in {x \in LockKeys : ~Malformed(x)}}

\* C5 as amended: the names of the tree are exactly the names the key-splitting
\* algorithm produces from the keys that split with a non-empty version; every
\* other key is skipped, and every record is the record of one of the keys that
\* split to its name.
C5_NamesAreSplitNamesWithVersion ==
    ParsedOk =>
        /\ DOMAIN tree =
               {SplitName(k) : k \in {x \in LockKeys : ~Malformed(x) /\ SplitVersion(x) # <<>>}}
        /\ \A n \in DOMAIN tree :
               \E k \in LockKeys :
                   /\ ~Malformed(k)
                   /\ SplitName(k) = n
                   /\ tree[n].Version = SplitVersion(k)
                   /\ tree[n].Type = "package"

C5_Witness ==
    /\ ParsedOk
    /\ \E k1, k2 \in LockKeys :
         /\ Malformed(k1)
         /\ ~Malformed(k2)
         /\ k2[1] = "@"
         /\ SplitName(k2) \in DOMAIN tree

\* C6: a parsed entry whose version string embeds (name@version) yields, besides
\* the declared record of the outer key, an indirect record for every match,
\* unless a declared record has that name.
C6_IndirectRecordsSynthesized ==
    ParsedOk =>
        \A k \in LockKeys :
            LET pk == parsePackageKey(k)
                matches == FindAllStringSubmatch(pk[2], 1)
            IN  (pk[1] # <<>> /\ pk[2] # <<>>) =>
                    /\ pk[1] \in DOMAIN tree
                    /\ \A i \in 1..Len(matches) :
                          /\ matches[i].name \in DOMAIN tree
                          /\ \/ tree[matches[i].name].Type = "package"
                             \/ /\ tree[matches[i].name].Type = "indirect"
                                /\ tree[matches[i].name].Version = matches[i].version

\* C7: every record of the tree has a non-empty name without "@" other than the
\* leading scope marker, and a non-empty version.
C7_NamesHaveNoSeparator ==
    ParsedOk =>
        \A n \in DOMAIN tree :
            /\ n # <<>>
            /\ \A i \in 2..Len(n) : n[i] # "@"
            /\ tree[n].Version # <<>>

Probed == pc = "probed"

\* C8: a probe that gets a response is classified by the response code alone
\* (200 Available, 403 Blocked, 404 NotFound, anything else Unexpected), keeps
\* the code and has no failure cause; a transport failure gives RequestFailed
\* with a cause and no code; the outcome carries the name, version and origin
\* of the call.
C8_ClassifiedByCode ==
    Probed =>
        LET r == pOut.result
        IN  /\ r.Name = pIn.name /\ r.Version = pIn.version /\ r.Type = pIn.type
            /\ (pOut.requests # <<>> /\ ~pResp.err) =>
                  /\ r.StatusCode = pResp.code
                  /\ r.Error = NilError
                  /\ r.Status = "Available in NPM Registry" <=> pResp.code = 200
                  /\ r.Status = "Blocked (403 Forbidden)" <=> pResp.code = 403
                  /\ r.Status = "Not Found (404)" <=> pResp.code = 404
                  /\ r.Status \notin {"Request Failed", "Invalid scoped package format"}
            /\ (pOut.requests # <<>> /\ pResp.err) =>
                  /\ r.Status = "Request Failed"
                  /\ r.Error # NilError
                  /\ r.StatusCode = 0

C8_Witness ==
    /\ Probed
    /\ pOut.requests # <<>>
    /\ pResp = [err |-> FALSE, code |-> 404]
    /\ pOut.result.Status = "Not Found (404)"
    /\ pOut.result.StatusCode = 404
    /\ HasPrefixAt(pIn.name)

\* a name that starts with "@" and contains no "/"
ScopedWithoutSlash(name) == name # <<>> /\ name[1] = "@" /\ \A i \in 1..Len(name) : name[i] # "/"

InvalidIdentity(out) ==
    /\ out.result.Status = "Invalid scoped package format"
    /\ out.result.Error # NilError
    /\ out.requests = <<>>

\* the text the URL of the call is made of
ProbeText == pIn.base \o pIn.name \o pIn.version

\* C9 as claimed: a name that starts with "@" and has no "/" gives InvalidIdentity
\* with a cause and no request; every other name gives exactly one GET.
C9_OneGetPerValidName ==
    Probed =>
        IF ScopedWithoutSlash(pIn.name)
        THEN InvalidIdentity(pOut)
        ELSE Len(pOut.requests) = 1 /\ pOut.requests[1].method = "GET"

\* C9 as amended: a name that starts with "@" and has no "/" gives InvalidIdentity
\* with a cause and no request; every other name gives at most one GET: exactly
\* one when the request can be built, and none, with outcome RequestFailed and a
\* cause, when building the request from the URL fails.
C9_AtMostOneGet ==
    Probed =>
        IF ScopedWithoutSlash(pIn.name)
        THEN InvalidIdentity(pOut)
        ELSE /\ Len(pOut.requests) <= 1
             /\ \A i \in 1..Len(pOut.requests) : pOut.requests[i].method = "GET"
             /\ pOut.result.Status # "Invalid scoped package format"
             /\ pOut.requests = <<>> =>
                   /\ pOut.result.Status = "Request Failed"
                   /\ pOut.result.Error \notin {NilError, "transport error"}
                   /\ pOut.result.StatusCode = 0
             /\ (\A i \in 1..Len(ProbeText) : ProbeText[i] # "%") => Len(pOut.requests) = 1

C9_Witness ==
    /\ Probed
    /\ ScopedWithoutSlash(pIn.name)
    /\ Len(pIn.name) >= 2
    /\ pIn.base = GoodBase
    /\ InvalidIdentity(pOut)

Enumerated == pc \in {"enumerate again", "enumerated"}

SortedWorkList(list) ==
    /\ Len(list) = Cardinality(DOMAIN tree)
    /\ \A i \in 1..Len(list) :
          /\ list[i].Name \in DOMAIN tree
          /\ list[i].Version = tree[list[i].Name].Version
          /\ list[i].Type = tree[list[i].Name].Type
          /\ Cardinality({n \in DOMAIN tree : StrLess(n, list[i].Name)}) = i - 1
    /\ \A i \in 1..(Len(list) - 1) : StrLess(list[i].Name, list[i + 1].Name)

\* C10: the work list has exactly one item per record of the tree, in ascending
\* order of name, each with the record's version and origin, at the position of
\* its rank by name; a second call on the same tree gives the identical list,
\* and the calls leave the tree unchanged.
C10_EnumerationSortedAndRepeatable ==
    /\ [](Enumerated => SortedWorkList(deps))
    /\ [](pc = "enumerated" => deps2 = deps)
    /\ [][(pc \in {"enumerate", "enumerate again"}) => (tree' = tree)]_vars

C10_Witness ==
    /\ pc = "enumerated"
    /\ Len(deps) >= 2
    /\ deps[1].Name[1] = "@"
    /\ deps[2].Name[1] # "@"

\* C11: with fewer than the two required arguments the run prints the usage
\* message and exits with a non-zero status, without parsing a file, writing a
\* snapshot or issuing a probe.
C11_UsageExitsBeforeAnyWork ==
    /\ Len(args) < 2 => pc \in {"start", "usage"}
    /\ pc = "usage" =>
          /\ Len(args) < 2
          /\ exitCode = 1
          /\ tree = EmptyMap
          /\ ~snapshot.written
          /\ NoAuditWork
          /\ gets = <<>>

C11_Witness ==
    /\ pc = "usage"
    /\ Len(args) = 1
    /\ DOMAIN lockFile.packages # {}

\* where the work item of position i (1-based) is: still queued, held by a
\* worker, queued as an outcome, or recorded
InJobs(i) == Cardinality({k \in 1..Len(jobs) : jobs[k].Name = deps[i].Name})

HeldAt(i, pcs) ==
    BagCardinality([w \in {x \in BagToSet(wk) : x.pc \in pcs /\ x.dep.Name = deps[i].Name}
                       |-> CopiesIn(w, wk)])

InResults(i) == Cardinality({k \in 1..Len(results) : results[k].Name = deps[i].Name})

InMap(i) == IF (i - 1) \in DOMAIN resultMap THEN 1 ELSE 0

\* C12: every submitted item is taken from the work queue by at most one worker
\* and probed at most once (never twice, no retry); with at least one worker
\* every item is taken and probed exactly once.
C12_EachItemProbedOnce ==
    \A i \in 1..Len(calls) :
        /\ InJobs(i) + HeldAt(i, {"probe", "send"}) + InResults(i) + InMap(i)
               = IF i <= sent THEN 1 ELSE 0
        /\ calls[i] = HeldAt(i, {"send"}) + InResults(i) + InMap(i)
        /\ calls[i] <= 1
        /\ gets[i] <= calls[i]
        /\ (numWorkers >= 1 /\ pc \in {"print", "done"}) => (calls[i] = 1 /\ InMap(i) = 1)

C12_Witness ==
    /\ pc = "done"
    /\ numWorkers = 1
    /\ Len(deps) >= 2
    /\ \A i \in 1..Len(deps) : calls[i] = 1

WorkersDone == \A w \in BagToSet(wk) : w.pc = "done"

Terminated == pc \in {"usage", "fatal parse", "fatal save", "done"}

\* C13: under fair scheduling, with every probe returning, every run ends, for
\* every work list size (0 included) and every worker count; an audit that has
\* started ends with all workers exited, the results stream closed and drained,
\* the collection loop over and the report emitted, and while it runs some
\* goroutine can always take a step.
C13_AuditTerminates ==
    /\ <>Terminated
    /\ [](pc = "done" =>
             /\ exitCode = 0
             /\ WorkersDone
             /\ wg = 0
             /\ supPc = "done"
             /\ resultsClosed
             /\ results = <<>>
             /\ printIdx = Len(deps)
             /\ (numWorkers >= 1 => subPc = "done" /\ jobs = <<>>))
    /\ []((Running /\ pc \in {"spawn", "collect", "print"}) => ENABLED Next)

C13_Witness ==
    /\ pc = "done"
    /\ numWorkers = 5
    /\ Len(deps) = 2
    /\ WorkersDone
    /\ resultsClosed

\* C14: results is closed only after every spawned worker has finished and jobs
\* only after every item has been submitted, so no worker sends on a closed
\* results channel and the submitter never sends on a closed jobs channel (a
\* send on a closed channel would panic, exit code 2).
C14_ClosedOnlyWhenProducersDone ==
    /\ resultsClosed => (WorkersDone /\ wg = 0 /\ BagCardinality(wk) = spawned)
    /\ jobsClosed => (sent = Len(deps) /\ subPc = "done")
    /\ \A w \in BagToSet(wk) : w.pc \in {"probe", "send"} => ~resultsClosed
    /\ (subPc = "run" /\ sent < Len(deps)) => ~jobsClosed
    /\ exitCode # 2

C14_Witness ==
    /\ resultsClosed
    /\ jobsClosed
    /\ numWorkers = 2
    /\ BagCardinality(wk) = 2
    /\ Len(results) = 2
    /\ completed = 0

\* calls of checkNpmRegistry that have been started and have not returned
InFlight ==
    BagCardinality([w \in {x \in BagToSet(wk) : x.pc = "probe"} |-> CopiesIn(w, wk)])

Spawning == pc \in {"spawn", "collect", "print", "done"}

\* C15: the Coordinator spawns exactly worker-count workers and the number of
\* probes in flight never exceeds worker-count.
C15_ExactlyWorkerCountWorkers ==
    /\ Spawning => (spawned <= numWorkers /\ BagCardinality(wk) = spawned)
    /\ pc \in {"collect", "print", "done"} => BagCardinality(wk) = numWorkers
    /\ Spawning => InFlight <= numWorkers

\* a send that cannot proceed at once: the channel is open and full
SubmitterBlocked ==
    /\ subPc = "run"
    /\ sent < Len(deps)
    /\ ~jobsClosed
    /\ ~(Len(jobs) < Capacity)

WorkerBlocked(w) ==
    /\ w.pc = "send"
    /\ ~resultsClosed
    /\ ~(Len(results) < Capacity)

\* C16: both channels hold the whole work list: at most N items are buffered in
\* jobs and at most N outcomes in results, and neither the submitter's send nor
\* a worker's send ever finds its channel full.
C16_SendsNeverBlock ==
    /\ Len(jobs) <= Len(deps)
    /\ Len(results) <= Len(deps)
    /\ ~SubmitterBlocked
    /\ \A w \in BagToSet(wk) : ~WorkerBlocked(w)

C16_Witness ==
    /\ pc = "collect"
    /\ Len(deps) = 2
    /\ Len(results) = Len(deps)
    /\ completed = 0
    /\ numWorkers = 1

\* the names and versions of the work list are pairwise distinct
DistinctItems ==
    \A i, j \in 1..Len(deps) :
        (deps[i].Name = deps[j].Name /\ deps[i].Version = deps[j].Version) => i = j

\* C17: for a work list with pairwise distinct (name, version) pairs, the
\* outcome recorded at a position is the one the Prober produced for the work
\* item of that position, and the report line of a position carries that
\* item's name, version and origin and that outcome's status, whatever the
\* order in which the outcomes arrive.
C17_OutcomeAtItsItemsPosition ==
    DistinctItems =>
        /\ \A k \in DOMAIN resultMap :
              /\ k + 1 \in 1..Len(deps)
              /\ calls[k + 1] = 1
              /\ resultMap[k] = [produced[k + 1] EXCEPT !.Index = k]
              /\ resultMap[k].Name = deps[k + 1].Name
              /\ resultMap[k].Version = deps[k + 1].Version
        /\ \A j \in 1..Len(report) :
              LET i == report[j].pos + 1
              IN  /\ i \in 1..Len(deps)
                  /\ report[j].Name = deps[i].Name
                  /\ report[j].Version = deps[i].Version
                  /\ report[j].Type = deps[i].Type
                  /\ report[j].Status = produced[i].Status

C17_Witness ==
    /\ pc = "collect"
    /\ Len(deps) = 2
    /\ deps[1].Version = deps[2].Version
    /\ DOMAIN resultMap = {1}
    /\ produced[1].Status # produced[2].Status
    /\ produced[1].Status # ""

\* C18: the progress counter goes up by exactly one per outcome received, the
\* progress values emitted are 1/N, 2/N, ... up to the number of outcomes
\* received, never beyond N/N, and with at least one worker they end at N/N;
\* a report line is emitted only after results is closed and drained and after
\* the last progress value.
C18_ProgressCountsOutcomes ==
    /\ [](/\ progress = [i \in 1..completed |-> <<i, Len(deps)>>]
          /\ completed <= Len(deps)
          /\ (numWorkers >= 1 /\ pc \in {"print", "done"}) => completed = Len(deps)
          /\ (report # <<>> \/ printIdx > 0) =>
                (resultsClosed /\ results = <<>> /\ pc \in {"print", "done"}))
    /\ [][/\ (completed' # completed \/ progress' # progress) =>
                /\ results # <<>>
                /\ results' = Tail(results)
                /\ completed' = completed + 1
                /\ progress' = Append(progress, <<completed', Len(deps)>>)
          /\ (results # <<>> /\ results' = Tail(results)) => completed' = completed + 1
          /\ report' # report => (progress' = progress /\ completed' = completed)]_vars

C18_Witness ==
    /\ pc = "print"
    /\ printIdx = 1
    /\ Len(report) = 1
    /\ progress = <<<<1, 2>>, <<2, 2>>>>

\* C19: a worker step changes neither the result map, nor the progress counter,
\* nor the submitted work list; the map and the counter change only in a turn
\* of the collection loop, and throughout that loop the counter equals the
\* number of positions recorded in the map (the names of a work list are
\* distinct).
C19_OnlyCollectionLoopWritesResults ==
    /\ [][/\ wk' # wk =>
                UNCHANGED <<resultMap, completed, progress, deps>>
          /\ (resultMap' # resultMap \/ completed' # completed) =>
                (pc = "collect" /\ pc' = "collect" /\ results' = Tail(results) /\ wk' = wk)
          /\ Spawning => deps' = deps]_vars
    /\ [](pc = "collect" => completed = Cardinality(DOMAIN resultMap))

C19_Witness ==
    /\ pc = "collect"
    /\ completed = 1
    /\ Cardinality(DOMAIN resultMap) = 1
    /\ \E w \in BagToSet(wk) : w.pc = "send"

\* C20: two runs of parsePnpmLock over the same unchanged lock document yield
\* the same DependencyTree and the same work list, also when two keys split to
\* the same package name with different versions.
C20_ParsingIsDeterministic ==
    pc \in {"enumerate", "enumerate again", "enumerated"} =>
        /\ tree2 = tree
        /\ pc = "enumerated" => deps2 = deps

====
